---------------------------- MODULE Spec2Model ----------------------------
(***************************************************************************)
(* A model of securedrop/db.py: the Journalist, Source, Submission and     *)
(* SourceStar tables, the password hashing of Journalist, the login and    *)
(* get_one_or_else lookups, Source.journalist_filename and                 *)
(* Source.documents_messages_count.                                        *)
(*                                                                         *)
(* Text is a sequence of one-character strings.  A table is a sequence of  *)
(* rows in primary-key order; ids are 1..Len(table) (rows are never        *)
(* deleted by db.py).  A call's outcome is a record whose field kind       *)
(* tells a returned value from a raised exception.                         *)
(***************************************************************************)
EXTENDS Integers, Sequences, FiniteSets, TLC

VARIABLES
    journalists,    \* the journalists table
    created_pw,     \* history: the password each journalists row was constructed with
    submissions,    \* the submissions table
    files,          \* the external file store: the <<filesystem_id, filename>> present
    instance,       \* the Source instance in memory: its row's id and its
                    \* docs_msgs_count attribute (NoAttr until first set)
    source_stars,   \* the source_stars table
    designation,    \* a Source's journalist_designation
    ret             \* the last call: [op, args, out]

vars == <<journalists, created_pw, submissions, files, instance,
          source_stars, designation, ret>>

(***************************************************************************)
(* Bounds of the model.                                                    *)
(***************************************************************************)
MaxPwLen == 1
MaxRows == 2
MaxSubmissions == 3
MaxStars == 4
MaxLen == 3

Usernames == {"alice", "bob"}
\* More rows than usernames: room for a second row of a stored username.
MaxJournalists == Cardinality(Usernames) + 1
\* The values os.urandom may give, told apart by rnd.
SaltValues == {1, 2}
PwChars == {"a", "b"}
SourceIds == {1, 2}

\* All texts over alphabet cs of length at most n.
TextUpTo(cs, n) == UNION {[1..k -> cs] : k \in 0..n}

Passwords == TextUpTo(PwChars, MaxPwLen)

(***************************************************************************)
(* Outcomes of a call.                                                     *)
(***************************************************************************)
NoCall == [op |-> "none", args |-> <<>>, out |-> [kind |-> "none"], eff |-> <<>>]
Returned(v) == [kind |-> "return", value |-> v]
Raised(e) == [kind |-> "raise", exc |-> e]
\* Python's None and False, as returned values.
PyNone == [kind |-> "None"]
PyFalse == [kind |-> "False"]
\* An instance attribute that has not been set (reading it: AttributeError).
NoAttr == [kind |-> "NoAttr"]

(***************************************************************************)
(* Journalist: password hashing.                                           *)
(***************************************************************************)
\* str(password) on ASCII text: the byte string of its characters' codes.
Ord == "a" :> 97 @@ "b" :> 98
Str(password) == [i \in 1..Len(password) |-> Ord[password[i]]]

\* os.urandom(salt_bytes): any of the salts of that length.
salt_bytes == 32
Salts == {[len |-> salt_bytes, rnd |-> k] : k \in SaltValues}
GenSalts == Salts

_SCRYPT_PARAMS == [N |-> 2^14, r |-> 8, p |-> 1]

\* scrypt.hash as an ideal key-derivation function: its output is determined
\* by, and determines, the byte string, the salt and the parameters.
ScryptHash(password, salt, params) ==
    LET pr == IF params = <<>> THEN _SCRYPT_PARAMS ELSE params
    IN  [kdf |-> "scrypt", pw |-> Str(password), salt |-> salt,
         N |-> pr.N, r |-> pr.r, p |-> pr.p]

valid_password(user, password) ==
    ScryptHash(password, user.pw_salt, <<>>) = user.pw_hash

\* Journalist.__init__: the new instance's columns, given the salt drawn.
JournalistInitOtherSalt(username, password, is_admin, salt) ==
    [username |-> username,
     pw_salt  |-> CHOOSE s \in Salts : s # salt,
     pw_hash  |-> ScryptHash(password, salt, <<>>),
     is_admin |-> is_admin]
JournalistInit(username, password, is_admin, salt) ==
    [username |-> username,
     pw_salt  |-> salt,
     pw_hash  |-> ScryptHash(password, salt, <<>>),
     is_admin |-> is_admin]

(***************************************************************************)
(* The journalists table.                                                  *)
(***************************************************************************)
\* filter_by(username=username): the matching rows, in id order.
FilterByUsername(table, username) ==
    SelectSeq(table, LAMBDA row : row.username = username)

\* INSERT of a new row; username is declared unique, so a row whose username
\* is already stored is refused with an IntegrityError and nothing is stored.
InsertJournalistNoUnique(table, row) ==
    [out |-> Returned([id |-> Len(table) + 1] @@ row),
     table |-> Append(table, [id |-> Len(table) + 1] @@ row)]
InsertJournalist(table, row) ==
    IF Len(FilterByUsername(table, row.username)) > 0
    THEN [out |-> Raised("IntegrityError"), table |-> table]
    ELSE [out |-> Returned([id |-> Len(table) + 1] @@ row),
          table |-> Append(table, [id |-> Len(table) + 1] @@ row)]

\* Query.one(): the single row, or NoResultFound / MultipleResultsFound.
OneFirst(rows) ==
    IF Len(rows) = 0 THEN Raised("NoResultFound") ELSE Returned(rows[1])
One(rows) ==
    IF Len(rows) = 0 THEN Raised("NoResultFound")
    ELSE IF Len(rows) > 1 THEN Raised("MultipleResultsFound")
    ELSE Returned(rows[1])

\* Journalist.login: the user, None, False, or the exception it lets through.
loginNoneOnMismatch(table, username, password) ==
    LET q == One(FilterByUsername(table, username))
    IN  IF q.kind = "raise"
        THEN IF q.exc = "NoResultFound" THEN Returned(PyNone) ELSE q
        ELSE IF valid_password(q.value, password)
             THEN Returned(q.value)
             ELSE Returned(PyNone)
login(table, username, password) ==
    LET q == One(FilterByUsername(table, username))
    IN  IF q.kind = "raise"
        THEN IF q.exc = "NoResultFound" THEN Returned(PyNone) ELSE q
        ELSE IF valid_password(q.value, password)
             THEN Returned(q.value)
             ELSE Returned(PyFalse)


\* get_one_or_else(query, logger, failure_method), on the rows the query
\* matches.  failure_method either raises (fmRaises) or returns; when it
\* returns, return_value is unbound at the return statement.
get_one_or_else_first(rows, fmRaises) ==
    LET q == One(rows)
    IN  IF q.kind = "return"
        THEN [out |-> q, logged |-> <<>>, failed |-> <<>>]
        ELSE LET code == IF q.exc = "MultipleResultsFound" THEN 500 ELSE 404
             IN  [out |-> IF fmRaises
                          THEN Raised(IF code = 500 THEN "failure_method(500)"
                                      ELSE "failure_method(404)")
                          ELSE IF Len(rows) > 0 THEN Returned(rows[1])
                          ELSE Raised("UnboundLocalError"),
                  logged |-> <<"error">>,
                  failed |-> <<code>>]
get_one_or_else(rows, fmRaises) ==
    LET q == One(rows)
    IN  IF q.kind = "return"
        THEN [out |-> q, logged |-> <<>>, failed |-> <<>>]
        ELSE LET code == IF q.exc = "MultipleResultsFound" THEN 500 ELSE 404
                 msg == IF q.exc = "MultipleResultsFound"
                        THEN "Found multiple while executing"
                        ELSE "Found none when one was expected"
             IN  [out |-> IF fmRaises
                          THEN Raised(IF code = 500 THEN "failure_method(500)"
                                      ELSE "failure_method(404)")
                          ELSE Raised("UnboundLocalError"),
                  logged |-> <<msg>>,
                  failed |-> <<code>>]

(***************************************************************************)
(* Journalist accounts: construction and persisting, login, verification.  *)
(***************************************************************************)
OtherThanJournalists ==
    <<submissions, files, instance, source_stars, designation>>

InitRest ==
    /\ submissions = <<>>
    /\ files = {}
    /\ instance = [id |-> 1, docs_msgs_count |-> NoAttr]
    /\ source_stars = <<>>
    /\ designation = <<>>
    /\ ret = NoCall

Init ==
    /\ journalists = <<>>
    /\ created_pw = <<>>
    /\ InitRest

\* Journalist(username, password, is_admin), then db_session.add and commit.
NewJournalist(username, password, is_admin, salt) ==
    /\ Len(journalists) < MaxJournalists
    /\ LET r == InsertJournalist(journalists,
                                 JournalistInit(username, password, is_admin, salt))
       IN  /\ journalists' = r.table
           /\ created_pw' = IF r.out.kind = "return"
                            THEN Append(created_pw, password) ELSE created_pw
           /\ ret' = [op |-> "Journalist", args |-> <<username>>,
                      out |-> r.out, eff |-> <<>>]
    /\ UNCHANGED OtherThanJournalists

Login(username, password) ==
    /\ ret' = [op |-> "login", args |-> <<username, password>>,
               out |-> login(journalists, username, password), eff |-> <<>>]
    /\ UNCHANGED <<journalists, created_pw>>
    /\ UNCHANGED OtherThanJournalists

ValidPassword(i, password) ==
    /\ i \in 1..Len(journalists)
    /\ ret' = [op |-> "valid_password", args |-> <<i, password>>,
               out |-> Returned(valid_password(journalists[i], password)),
               eff |-> <<>>]
    /\ UNCHANGED <<journalists, created_pw>>
    /\ UNCHANGED OtherThanJournalists

Next ==
    \/ \E u \in Usernames, p \in Passwords, a \in BOOLEAN, s \in GenSalts :
          NewJournalist(u, p, a, s)
    \/ \E u \in Usernames, p \in Passwords : Login(u, p)
    \/ \E i \in 1..MaxJournalists, p \in Passwords : ValidPassword(i, p)

Spec == Init /\ [][Next]_vars

(***************************************************************************)
(* Lookups over any journalists table: a store's rows need not have come   *)
(* through InsertJournalist, so a username may match several rows.         *)
(***************************************************************************)
AnyTables ==
    {[i \in 1..Len(t) |->
        [id |-> i] @@ JournalistInit(t[i][1], t[i][2], FALSE,
                                     [len |-> salt_bytes, rnd |-> 1])] :
       t \in TextUpTo(Usernames \X Passwords, MaxRows)}

InitStore ==
    /\ journalists \in AnyTables
    /\ created_pw = <<>>
    /\ InitRest

GetOneOrElse(username, fmRaises) ==
    /\ LET r == get_one_or_else(FilterByUsername(journalists, username), fmRaises)
       IN  ret' = [op |-> "get_one_or_else", args |-> <<username, fmRaises>>,
                   out |-> r.out, eff |-> [logged |-> r.logged, failed |-> r.failed]]
    /\ UNCHANGED <<journalists, created_pw>>
    /\ UNCHANGED OtherThanJournalists

NextStore ==
    \/ \E u \in Usernames, p \in Passwords : Login(u, p)
    \/ \E u \in Usernames, f \in BOOLEAN : GetOneOrElse(u, f)

SpecStore == InitStore /\ [][NextStore]_vars

(***************************************************************************)
(* Properties of the journalist accounts.                                  *)
(***************************************************************************)
UniqueUsernames(table) ==
    \A i, j \in 1..Len(table) : table[i].username = table[j].username => i = j

IsPrefix(s, t) == Len(s) <= Len(t) /\ SubSeq(t, 1, Len(s)) = s

\* The password verifies against the row's stored salt and hash.
Verifies(row, password) ==
    row.pw_hash = [kdf |-> "scrypt", pw |-> Str(password), salt |-> row.pw_salt,
                   N |-> 16384, r |-> 8, p |-> 1]

\* C1: in a store with unique usernames, login returns the journalist's row
\* when the username matches one row and the password verifies, False when
\* the row exists and the password does not verify, None when no row has the
\* username; None and False differ and neither is a row.
C1_LoginOutcome ==
    (ret.op = "login" /\ UniqueUsernames(journalists)) =>
        LET m == FilterByUsername(journalists, ret.args[1])
            password == ret.args[2]
        IN  /\ (Len(m) = 1 /\ Verifies(m[1], password)) => ret.out = Returned(m[1])
            /\ (Len(m) = 1 /\ ~Verifies(m[1], password)) => ret.out = Returned(PyFalse)
            /\ Len(m) = 0 => ret.out = Returned(PyNone)
            /\ PyNone # PyFalse
            /\ \A i \in 1..Len(journalists) :
                   journalists[i] # PyNone /\ journalists[i] # PyFalse

C1_Witness ==
    /\ ret.op = "login"
    /\ Len(FilterByUsername(journalists, ret.args[1])) = 1
    /\ ret.out = Returned(PyFalse)

\* C6: stored journalists never share a username; rows already stored are
\* never changed; constructing and persisting a Journalist whose username is
\* already stored fails and leaves the table as it was.
C6_UsernameUnique ==
    [][ /\ UniqueUsernames(journalists')
        /\ IsPrefix(journalists, journalists')
        /\ (ret'.op = "Journalist"
            /\ Len(FilterByUsername(journalists, ret'.args[1])) > 0)
           => (ret'.out = Raised("IntegrityError") /\ journalists' = journalists)
      ]_vars

C6_Witness ==
    /\ ret.op = "Journalist"
    /\ ret.out = Raised("IntegrityError")
    /\ Len(FilterByUsername(journalists, ret.args[1])) = 1

AllHashes ==
    {ScryptHash(p, s, <<>>) : p \in Passwords, s \in Salts} \cup {[kdf |-> "other"]}

\* C7: a journalist constructed with password p stores the hash of p under
\* the stored salt, so valid_password(p) holds; valid_password(q) fails for
\* every other password q, and fails for p once the stored hash is any other
\* value.
C7_HashOfPassword ==
    \A i \in 1..Len(journalists) :
        LET user == journalists[i]
            p == created_pw[i]
        IN  /\ user.pw_hash = ScryptHash(p, user.pw_salt, _SCRYPT_PARAMS)
            /\ valid_password(user, p)
            /\ \A q \in Passwords \ {p} : ~valid_password(user, q)
            /\ \A h \in AllHashes \ {user.pw_hash} :
                   ~valid_password([user EXCEPT !.pw_hash = h], p)

C7_Witness ==
    /\ ret.op = "valid_password"
    /\ ret.args[2] # created_pw[ret.args[1]]
    /\ ret.out = Returned(FALSE)

(***************************************************************************)
(* Properties of the lookups over any table.                               *)
(***************************************************************************)
\* C2: when two or more rows match the username, login ends with
\* MultipleResultsFound whatever the password: it returns no row, not None
\* and not False.
C2_LoginConflict ==
    (ret.op = "login" /\ Len(FilterByUsername(journalists, ret.args[1])) >= 2)
        => ret.out = Raised("MultipleResultsFound")

C2_Witness ==
    /\ ret.op = "login"
    /\ Len(FilterByUsername(journalists, ret.args[1])) >= 2
    /\ \E i \in 1..Len(journalists) :
           /\ journalists[i].username = ret.args[1]
           /\ Verifies(journalists[i], ret.args[2])

\* C4: get_one_or_else returns a row only when exactly one row matches, and
\* then that row, with failure_method not called; with no match it calls
\* failure_method(404), with several failure_method(500), logging once, and
\* in both cases it ends in an exception, whether failure_method raises or
\* returns.
C4_GetOneOrElse ==
    ret.op = "get_one_or_else" =>
        LET m == FilterByUsername(journalists, ret.args[1])
        IN  /\ Len(m) = 1 => (ret.out = Returned(m[1]) /\ ret.eff.failed = <<>>
                              /\ ret.eff.logged = <<>>)
            /\ Len(m) = 0 => (ret.out.kind = "raise" /\ ret.eff.failed = <<404>>
                              /\ Len(ret.eff.logged) = 1)
            /\ Len(m) > 1 => (ret.out.kind = "raise" /\ ret.eff.failed = <<500>>
                              /\ Len(ret.eff.logged) = 1)
            /\ ret.out.kind = "return" => Len(m) = 1

C4_Witness ==
    /\ ret.op = "get_one_or_else"
    /\ Len(FilterByUsername(journalists, ret.args[1])) > 1
    /\ ret.args[2] = FALSE
    /\ ret.out = Raised("UnboundLocalError")

(***************************************************************************)
(* Sources, the external file store and submissions.                       *)
(***************************************************************************)
\* The sources table: two sources, each with its filesystem_id.
Sources == <<[id |-> 1, filesystem_id |-> "fsid1"],
             [id |-> 2, filesystem_id |-> "fsid2"]>>

msg_gpg == <<"m", "s", "g", ".", "g", "p", "g">>
doc_zip_gpg == <<"d", "o", "c", ".", "z", "i", "p", ".", "g", "p", "g">>
Filenames == {<<"1", "-">> \o msg_gpg,
              <<"2", "-">> \o doc_zip_gpg,
              <<"3", "-", "o", "t", "h", "e", "r", ".", "g", "p", "g">>}

\* str.endswith
EndsWith(s, suffix) ==
    /\ Len(s) >= Len(suffix)
    /\ SubSeq(s, Len(s) - Len(suffix) + 1, Len(s)) = suffix

\* os.stat(store.path(filesystem_id, filename)).st_size: the stored file's
\* size, or OSError when no such file is in the store.  A stored file's size
\* does not change; it is taken to be the length of its name.
StatSize(fs, filesystem_id, filename) ==
    IF <<filesystem_id, filename>> \in fs
    THEN Returned(Len(filename))
    ELSE Raised("OSError")

\* Submission(source, filename), then db_session.add and commit: the row is
\* added only once __init__ has returned.
NewSubmissionAddFirst(table, fs, source, filename) ==
    LET st == StatSize(fs, source.filesystem_id, filename)
        row == [id |-> Len(table) + 1, source_id |-> source.id,
                filename |-> filename,
                size |-> IF st.kind = "return" THEN st.value ELSE 0,
                downloaded |-> FALSE]
    IN  [out |-> IF st.kind = "raise" THEN st ELSE Returned(row),
         table |-> Append(table, row)]
NewSubmissionResult(table, fs, source, filename) ==
    LET st == StatSize(fs, source.filesystem_id, filename)
    IN  IF st.kind = "raise"
        THEN [out |-> st, table |-> table]
        ELSE LET row == [id |-> Len(table) + 1, source_id |-> source.id,
                         filename |-> filename, size |-> st.value,
                         downloaded |-> FALSE]
             IN  [out |-> Returned(row), table |-> Append(table, row)]

\* Source.submissions: the source's rows, ordered by id.
SubmissionsOf(table, source_id) ==
    SelectSeq(table, LAMBDA row : row.source_id = source_id)

\* The loop of documents_messages_count over the submissions from index i.
RECURSIVE CountLoop(_, _, _)
CountLoop(subs, i, acc) ==
    IF i > Len(subs) THEN acc
    ELSE IF EndsWith(subs[i].filename, msg_gpg)
         THEN CountLoop(subs, i + 1, [acc EXCEPT !.messages = @ + 1])
         ELSE IF EndsWith(subs[i].filename, doc_zip_gpg)
              THEN CountLoop(subs, i + 1, [acc EXCEPT !.documents = @ + 1])
              ELSE CountLoop(subs, i + 1, acc)

\* Source.documents_messages_count on an instance whose attribute is attr:
\* the value returned and the attribute afterwards.
documents_messages_count_any_gpg(attr, subs) ==
    IF attr # NoAttr
    THEN [out |-> attr, attr |-> attr]
    ELSE LET c == [messages |-> Len(subs), documents |-> 0]
         IN  [out |-> c, attr |-> c]
documents_messages_count(attr, subs) ==
    IF attr # NoAttr
    THEN [out |-> attr, attr |-> attr]
    ELSE LET c == CountLoop(subs, 1, [messages |-> 0, documents |-> 0])
         IN  [out |-> c, attr |-> c]

\* The external store receives a file.
StoreFile(source_id, filename) ==
    /\ files' = files \cup {<<Sources[source_id].filesystem_id, filename>>}
    /\ UNCHANGED <<journalists, created_pw, submissions, instance, source_stars,
                   designation, ret>>

NewSubmission(source_id, filename) ==
    /\ Len(submissions) < MaxSubmissions
    /\ LET r == NewSubmissionResult(submissions, files, Sources[source_id], filename)
       IN  /\ submissions' = r.table
           /\ ret' = [op |-> "Submission", args |-> <<source_id, filename>>,
                      out |-> r.out, eff |-> <<>>]
    /\ UNCHANGED <<journalists, created_pw, files, instance, source_stars,
                   designation>>

\* A source is loaded from the store as a new instance.
LoadSource(source_id) ==
    /\ instance' = [id |-> source_id, docs_msgs_count |-> NoAttr]
    /\ ret' = [op |-> "Source", args |-> <<source_id>>,
               out |-> Returned(Sources[source_id]), eff |-> <<>>]
    /\ UNCHANGED <<journalists, created_pw, submissions, files, source_stars,
                   designation>>

\* documents_messages_count() on the instance in memory; eff tells whether
\* the attribute was unset when it was called.
DocumentsMessagesCount ==
    /\ LET r == documents_messages_count(instance.docs_msgs_count,
                                         SubmissionsOf(submissions, instance.id))
       IN  /\ instance' = [instance EXCEPT !.docs_msgs_count = r.attr]
           /\ ret' = [op |-> "documents_messages_count", args |-> <<instance.id>>,
                      out |-> Returned(r.out),
                      eff |-> <<instance.docs_msgs_count = NoAttr>>]
    /\ UNCHANGED <<journalists, created_pw, submissions, files, source_stars,
                   designation>>

NextSubmission ==
    \/ \E s \in SourceIds, f \in Filenames : StoreFile(s, f)
    \/ \E s \in SourceIds, f \in Filenames : NewSubmission(s, f)
    \/ \E s \in SourceIds : LoadSource(s)
    \/ DocumentsMessagesCount

SpecSubmission == Init /\ [][NextSubmission]_vars

\* The counts the current submissions of a source give, by suffix.
WithSuffix(subs, suffix) == {i \in 1..Len(subs) : EndsWith(subs[i].filename, suffix)}
CurrentCounts(source_id) ==
    LET subs == SubmissionsOf(submissions, source_id)
    IN  [messages |-> Cardinality(WithSuffix(subs, msg_gpg)),
         documents |-> Cardinality(WithSuffix(subs, doc_zip_gpg))]

\* C3: every call of documents_messages_count() returns the counts of the
\* source's current submissions, also after submissions were added since the
\* count was first computed on the instance.
C3_CountIsCurrent ==
    ret.op = "documents_messages_count" =>
        ret.out = Returned(CurrentCounts(ret.args[1]))

\* C5: constructing a Submission whose file is absent from the file store
\* fails with the lookup error of os.stat, and the submissions table (so also
\* the source's submissions collection) is what it was before.
C5_AbsentFileNoRecord ==
    [][ (/\ ret'.op = "Submission"
         /\ <<Sources[ret'.args[1]].filesystem_id, ret'.args[2]>> \notin files)
        => (/\ ret'.out = Raised("OSError")
            /\ submissions' = submissions
            /\ \A s \in SourceIds :
                   SubmissionsOf(submissions', s) = SubmissionsOf(submissions, s))
      ]_vars

C5_Witness ==
    /\ ret.op = "Submission"
    /\ ret.out = Raised("OSError")
    /\ Len(SubmissionsOf(submissions, ret.args[1])) > 0

\* C9: on an instance whose count was not computed before,
\* documents_messages_count() returns a mapping with exactly the keys
\* messages and documents: the numbers of the source's submissions whose
\* filename ends in msg.gpg and in doc.zip.gpg; a submission with neither
\* suffix is in neither count and none is in both.
C9_FirstCount ==
    (ret.op = "documents_messages_count" /\ ret.eff = <<TRUE>>) =>
        LET subs == SubmissionsOf(submissions, ret.args[1])
            c == ret.out.value
            m == WithSuffix(subs, msg_gpg)
            d == WithSuffix(subs, doc_zip_gpg)
        IN  /\ DOMAIN c = {"messages", "documents"}
            /\ c.messages = Cardinality(m)
            /\ c.documents = Cardinality(d)
            /\ m \cap d = {}
            /\ c.messages + c.documents
                 = Len(subs) - Cardinality((1..Len(subs)) \ (m \cup d))

C9_Witness ==
    /\ ret.op = "documents_messages_count"
    /\ ret.eff = <<TRUE>>
    /\ ret.out = Returned([messages |-> 1, documents |-> 1])
    /\ Len(SubmissionsOf(submissions, ret.args[1])) = 3

(***************************************************************************)
(* Star markers.                                                           *)
(***************************************************************************)
\* SourceStar(source, starred), then db_session.add and commit: source_id
\* carries no unique constraint, so the row is always added.
NewSourceStarResult(table, source, starred) ==
    Append(table, [id |-> Len(table) + 1, source_id |-> source.id,
                   starred |-> starred])

NewSourceStar(source_id, starred) ==
    /\ Len(source_stars) < MaxStars
    /\ source_stars' = NewSourceStarResult(source_stars, Sources[source_id], starred)
    /\ ret' = [op |-> "SourceStar", args |-> <<source_id, starred>>,
               out |-> Returned(source_stars'[Len(source_stars')]), eff |-> <<>>]
    /\ UNCHANGED <<journalists, created_pw, submissions, files, instance,
                   designation>>

NextStar == \E s \in SourceIds, b \in BOOLEAN : NewSourceStar(s, b)

SpecStar == Init /\ [][NextStar]_vars

\* C10: every source has at most one source_stars row referencing it.
C10_AtMostOneStar ==
    \A s \in SourceIds :
        Len(SelectSeq(source_stars, LAMBDA row : row.source_id = s)) <= 1

(***************************************************************************)
(* Source.journalist_filename.                                             *)
(***************************************************************************)
Letters == {"a", "b", "c", "d", "e", "f", "g", "h", "i", "j", "k", "l", "m",
            "n", "o", "p", "q", "r", "s", "t", "u", "v", "w", "x", "y", "z"}
Digits == {"1", "2", "3", "4", "5", "6", "7", "8", "9", "0"}
valid_chars == Letters \cup Digits \cup {"-", "_"}

\* The characters designations are drawn from.
DesignationChars == {"a", "A", " ", "_", "-", "!"}
Designations == TextUpTo(DesignationChars, MaxLen)

\* str.lower, one character
Upper == "A" :> "a"
LowerChar(c) == IF c \in DOMAIN Upper THEN Upper[c] ELSE c
\* str.replace(' ', '_'), one character
ReplaceChar(c) == IF c = " " THEN "_" ELSE c

journalist_filename_unfiltered(d) ==
    [i \in 1..Len(d) |-> ReplaceChar(LowerChar(d[i]))]
journalist_filename(d) ==
    SelectSeq([i \in 1..Len(d) |-> ReplaceChar(LowerChar(d[i]))],
              LAMBDA c : c \in valid_chars)

\* Source(filesystem_id, journalist_designation)
NewSource(d) ==
    /\ designation' = d
    /\ ret' = [op |-> "Source", args |-> <<d>>, out |-> Returned(d), eff |-> <<>>]
    /\ UNCHANGED <<journalists, created_pw, submissions, files, instance,
                   source_stars>>

JournalistFilename ==
    /\ ret' = [op |-> "journalist_filename", args |-> <<designation>>,
               out |-> Returned(journalist_filename(designation)), eff |-> <<>>]
    /\ UNCHANGED <<journalists, created_pw, submissions, files, instance,
                   source_stars, designation>>

NextSlug ==
    \/ \E d \in Designations : NewSource(d)
    \/ JournalistFilename

SpecSlug == Init /\ [][NextSlug]_vars

\* C8: every character of journalist_filename's result is in the allow-set,
\* applying journalist_filename to the result gives the result again, and the
\* empty designation gives the empty string.
C8_SlugIdempotent ==
    ret.op = "journalist_filename" =>
        LET slug == ret.out.value
        IN  /\ \A i \in 1..Len(slug) : slug[i] \in valid_chars
            /\ journalist_filename(slug) = slug
            /\ (ret.args[1] = <<>> => slug = <<>>)

C8_Witness ==
    /\ ret.op = "journalist_filename"
    /\ ret.args[1] = <<"A", " ", "!">>
    /\ ret.out = Returned(<<"a", "_">>)
=============================================================================
